---- MODULE Spec2Model ----
(***************************************************************************)
(* Resource scanning and zipping of actor/v2action/resource.go:            *)
(* GatherArchiveResources, GatherDirectoryResources, ZipArchiveResources,  *)
(* ZipDirectoryResources, addFileToZipFromFileSystem, findInResources.     *)
(*                                                                         *)
(* Paths and entry names are sequences of one-character strings, so that   *)
(* filepath.Join / Rel / ToSlash act on separators as the library does.    *)
(* A file's content is a sequence of bytes; its SHA1 is looked up in a     *)
(* table of the real digests of the contents the model uses.               *)
(***************************************************************************)
EXTENDS Integers, Sequences, FiniteSets, TLC

VARIABLES
    goos,       \* "unix" or "windows": fixes filepath.Separator
    dir,        \* the source directory on disk
    archive,    \* the source archive on disk
    tmp,        \* the temp file made by ioutil.TempFile and its zip.Writer
    op,         \* the function being executed
    pc,         \* position inside it
    files,      \* filesToInclude of the running Zip* call
    fromScan,   \* files is the result of GatherDirectoryResources on dir
    modified,   \* a file of dir was rewritten after that scan
    apath,      \* archivePath of the running GatherArchiveResources call
    queue,      \* the paths filepath.Walk hands to the callback, in order
    idx,        \* index of the loop iteration
    resources,  \* var resources []Resource
    handles,    \* source handles that are open
    opened,     \* indices of filesToInclude whose file was opened (history)
    ret         \* what the call returned

vars == <<goos, dir, archive, tmp, op, pc, files, fromScan, modified, apath, queue,
          idx, resources, handles, opened, ret>>

-----------------------------------------------------------------------------
(* Bounds *)

MaxEntries == 2
MaxList == 2

-----------------------------------------------------------------------------
(* Program constants *)

\* 0755
DefaultFolderPermissions == 493
\* 0744
DefaultArchiveFilePermissions == 484

-----------------------------------------------------------------------------
(* Files, contents, digests *)

Names == {"a", "b"}

Contents == { <<>>, <<"x">> }

Sha1Hex(content) ==
    IF content = <<>> THEN "da39a3ee5e6b4b0d3255bfef95601890afd80709"
    ELSE IF content = <<"x">> THEN "11f6ad8ec52a2984abaafd7c3b516503785c2072"
    ELSE "95cb0bfd2977c761298d9624e4b4d4c72a39974a"

nil == [kind |-> "nil", call |-> "", path |-> <<>>]

IOError(call, path) == [kind |-> "io", call |-> call, path |-> path]

NotExistError(call, path) == [kind |-> "notexist", call |-> call, path |-> path]

FileChangedError(Filename) == [kind |-> "FileChanged", call |-> "", path |-> Filename]

ZeroResource == [Filename |-> <<>>, Mode |-> 0, SHA1 |-> "", Size |-> 0]

-----------------------------------------------------------------------------
(* path/filepath *)

Separator == IF goos = "windows" THEN "\\" ELSE "/"

ToSlashKeepsSeparator(path) == path

ToSlash(path) ==
    IF Separator = "/" THEN path
    ELSE [i \in DOMAIN path |-> IF path[i] = Separator THEN "/" ELSE path[i]]

FromSlash(path) ==
    IF Separator = "/" THEN path
    ELSE [i \in DOMAIN path |-> IF path[i] = "/" THEN Separator ELSE path[i]]

RECURSIVE TrimSeparators(_)
TrimSeparators(path) ==
    IF Len(path) > 1 /\ path[Len(path)] = Separator
    THEN TrimSeparators(SubSeq(path, 1, Len(path) - 1))
    ELSE path

Clean(path) == TrimSeparators(FromSlash(path))

Join(a, b) == IF b = <<>> THEN Clean(a) ELSE Clean(a \o <<Separator>> \o b)

Rel(basepath, targpath) ==
    IF Clean(targpath) = Clean(basepath) THEN <<".">>
    ELSE SubSeq(Clean(targpath), Len(Clean(basepath)) + 2, Len(Clean(targpath)))

HasSuffixSlash(name) == Len(name) > 0 /\ name[Len(name)] = "/"

sourceDir == <<"D">>

-----------------------------------------------------------------------------
(* The directory on disk: entries keyed by their chain of names below the  *)
(* root.  A symlink is what Lstat reports for a link to a regular file:    *)
(* not a directory, and a size that is the length of the link text, while  *)
(* opening it reads the content of the file it points to.                  *)

DirEntry == [kind |-> "dir", content |-> <<>>, perm |-> 493, lsize |-> 0]

FileEntries == {[kind |-> "file", content |-> c, perm |-> 420, lsize |-> Len(c)] : c \in Contents}

SymlinkEntries == {[kind |-> "symlink", content |-> c, perm |-> 511, lsize |-> 1] : c \in Contents}

Entries == {DirEntry} \cup FileEntries \cup SymlinkEntries

AllKeys == {<<n>> : n \in Names} \cup {<<n, m>> : n \in Names, m \in Names}

KeySets ==
    {K \in SUBSET AllKeys :
        /\ Cardinality(K) <= MaxEntries
        /\ \A k \in K : Len(k) > 1 => SubSeq(k, 1, Len(k) - 1) \in K}

Trees ==
    UNION {{t \in [K -> Entries] :
              \A k \in K : Len(k) > 1 => t[SubSeq(k, 1, Len(k) - 1)].kind = "dir"}
           : K \in KeySets}

NoDir == [exists |-> FALSE, entries |-> <<>>]

Rank(n) == IF n = "a" THEN 1 ELSE 2

RECURSIVE KeyLess(_, _)
KeyLess(k1, k2) ==
    IF k1 = <<>> THEN k2 # <<>>
    ELSE IF k2 = <<>> THEN FALSE
    ELSE IF k1[1] # k2[1] THEN Rank(k1[1]) < Rank(k2[1])
    ELSE KeyLess(Tail(k1), Tail(k2))

RECURSIVE SortedKeys(_)
SortedKeys(K) ==
    IF K = {} THEN <<>>
    ELSE LET first == CHOOSE k \in K : \A o \in K \ {k} : KeyLess(k, o)
         IN <<first>> \o SortedKeys(K \ {first})

RECURSIVE PathOf(_)
PathOf(key) ==
    IF key = <<>> THEN sourceDir
    ELSE Join(PathOf(SubSeq(key, 1, Len(key) - 1)), <<key[Len(key)]>>)

\* the component chain a path names below sourceDir; <<"?">> when it names nothing
RECURSIVE Components(_)
Components(rest) ==
    IF rest = <<>> THEN <<>>
    ELSE IF Len(rest) >= 2 /\ rest[1] = Separator /\ rest[2] \in Names
         THEN <<rest[2]>> \o Components(SubSeq(rest, 3, Len(rest)))
         ELSE <<"?">>

KeyOf(path) ==
    IF Len(path) >= Len(sourceDir) /\ SubSeq(path, 1, Len(sourceDir)) = sourceDir
    THEN Components(SubSeq(path, Len(sourceDir) + 1, Len(path)))
    ELSE <<"?">>

Exists(path) == dir.exists /\ (KeyOf(path) = <<>> \/ KeyOf(path) \in DOMAIN dir.entries)

\* os.Lstat: the entry itself
Lstat(path) ==
    IF KeyOf(path) = <<>> THEN [IsDir |-> TRUE, Mode |-> DirEntry.perm, Size |-> 0]
    ELSE LET e == dir.entries[KeyOf(path)]
         IN [IsDir |-> e.kind = "dir", Mode |-> e.perm, Size |-> e.lsize]

\* (*os.File).Stat on an opened path: a link has been followed
Stat(path) ==
    IF KeyOf(path) = <<>> THEN [IsDir |-> TRUE, Mode |-> DirEntry.perm, Size |-> 0]
    ELSE LET e == dir.entries[KeyOf(path)]
         IN [IsDir |-> e.kind = "dir",
             Mode |-> IF e.kind = "symlink" THEN 420 ELSE e.perm,
             Size |-> Len(e.content)]

ReadAll(path) == IF KeyOf(path) = <<>> THEN <<>> ELSE dir.entries[KeyOf(path)].content

\* owner read+execute forced on
fixMode(mode) ==
    LET owner == (mode \div 64) % 8
        r == IF owner \div 4 = 1 THEN owner ELSE owner + 4
        rx == IF r % 2 = 1 THEN r ELSE r + 1
    IN (mode - owner * 64) + rx * 64

-----------------------------------------------------------------------------
(* Inclusion lists and archives *)

EntryNames == { <<"a">>, <<"a", "/">>, <<"a", "/", "b">> }

\* a descriptor as a scan of an archive produces it: of a directory, or of a
\* file whose content was <<"x">> when it was scanned
Descriptors ==
    {[Filename |-> n, Mode |-> DefaultFolderPermissions, SHA1 |-> "", Size |-> 0] :
        n \in EntryNames}
    \cup
    {[Filename |-> n, Mode |-> DefaultArchiveFilePermissions,
      SHA1 |-> Sha1Hex(<<"x">>), Size |-> 1] : n \in EntryNames}

\* filesToInclude: paths are unique within one list
Lists ==
    {<<>>} \cup
    UNION {{l \in [1..n -> Descriptors] :
              \A i, j \in 1..n : i # j => l[i].Filename # l[j].Filename}
           : n \in 1..MaxList}

\* an entry of a zip: a name ending in "/" is a directory
ArchiveEntries ==
    {[Name |-> n, Mode |-> 448, content |-> <<>>] : n \in {m \in EntryNames : HasSuffixSlash(m)}}
    \cup
    {[Name |-> n, Mode |-> 384, content |-> c] :
        n \in {m \in EntryNames : ~HasSuffixSlash(m)}, c \in Contents}

Archives ==
    {<<>>} \cup
    UNION {{a \in [1..n -> ArchiveEntries] :
              \A i, j \in 1..n : i # j => a[i].Name # a[j].Name}
           : n \in 1..MaxEntries}

\* (*zip.File).FileInfo()
FileInfo(archivedFile) ==
    [IsDir |-> HasSuffixSlash(archivedFile.Name),
     Mode |-> archivedFile.Mode,
     Size |-> Len(archivedFile.content)]

NoArchive == [exists |-> FALSE, File |-> <<>>]

NoTmp == [exists |-> FALSE, File |-> <<>>]

NoRet == [resources |-> <<>>, path |-> "", err |-> nil]

TmpName == "cf-cli-"

ZipOps == {"ZipDirectoryResources", "ZipArchiveResources"}

GatherOps == {"GatherDirectoryResources", "GatherArchiveResources"}

\* the file a path names: the source archive, or the temp file of the last Zip* call
Disk(path) == IF path = TmpName THEN tmp ELSE archive

WalkQueue ==
    IF dir.exists THEN <<sourceDir>> \o [i \in 1..Len(SortedKeys(DOMAIN dir.entries)) |->
                                            PathOf(SortedKeys(DOMAIN dir.entries)[i])]
    ELSE <<sourceDir>>

Init ==
    /\ goos \in {"unix", "windows"}
    /\ \/ /\ dir \in {[exists |-> TRUE, entries |-> t] : t \in Trees}
          /\ archive = NoArchive
       \/ /\ dir = NoDir
          /\ archive \in {[exists |-> TRUE, File |-> a] : a \in Archives}
    /\ tmp = NoTmp
    /\ op = "" /\ pc = "idle"
    /\ files = <<>> /\ fromScan = FALSE /\ modified = FALSE /\ apath = ""
    /\ queue = <<>> /\ idx = 0 /\ resources = <<>>
    /\ handles = {} /\ opened = {} /\ ret = NoRet

Return(r) ==
    /\ ret' = r
    /\ pc' = "done"

-----------------------------------------------------------------------------
(* GatherDirectoryResources *)

\* lines 76-78
GatherDirectoryResources_Call ==
    /\ pc = "idle"
    /\ op' = "GatherDirectoryResources"
    /\ pc' = "walk"
    /\ queue' = WalkQueue
    /\ idx' = 1
    /\ resources' = <<>>
    /\ UNCHANGED <<goos, dir, archive, tmp, files, fromScan, modified, apath, handles, opened, ret>>

\* lines 78-103: the callback up to the open of a file
WalkFn_Enter ==
    /\ op = "GatherDirectoryResources" /\ pc = "walk" /\ idx <= Len(queue)
    /\ LET path == queue[idx]
           relPath == Rel(sourceDir, path)
           resource == [ZeroResource EXCEPT !.Filename = ToSlash(relPath)]
       IN \E fault \in {"none", "walk", "open"} :
            IF fault = "walk" \/ ~Exists(path)
            THEN /\ Return([resources |-> resources, path |-> "",
                            err |-> IF Exists(path) THEN IOError("walk", path)
                                    ELSE NotExistError("lstat", path)])
                 /\ UNCHANGED <<resources, idx, handles>>
            ELSE IF relPath = <<".">>
            THEN /\ fault = "none"
                 /\ idx' = idx + 1
                 /\ UNCHANGED <<resources, handles, pc, ret>>
            ELSE IF Lstat(path).IsDir
            THEN /\ fault = "none"
                 /\ resources' = Append(resources,
                                   [resource EXCEPT !.Mode = DefaultFolderPermissions])
                 /\ idx' = idx + 1
                 /\ UNCHANGED <<handles, pc, ret>>
            ELSE IF fault = "open"
            THEN /\ Return([resources |-> resources, path |-> "",
                            err |-> IOError("open", path)])
                 /\ UNCHANGED <<resources, idx, handles>>
            ELSE /\ handles' = handles \cup {[kind |-> "file", id |-> idx]}
                 /\ pc' = "hash"
                 /\ UNCHANGED <<resources, idx, ret>>
    /\ UNCHANGED <<goos, dir, archive, tmp, op, files, fromScan, modified, apath, queue, opened>>

\* lines 103-116: hash the opened file, fill in the descriptor, close
WalkFn_Hash ==
    /\ op = "GatherDirectoryResources" /\ pc = "hash"
    /\ LET path == queue[idx]
           info == Lstat(path)
           resource == [Filename |-> ToSlash(Rel(sourceDir, path)),
                        Mode |-> fixMode(info.Mode),
                        SHA1 |-> Sha1Hex(ReadAll(path)),
                        Size |-> info.Size]
       IN \E fault \in {"none", "copy"} :
            /\ handles' = handles \ {[kind |-> "file", id |-> idx]}
            /\ IF fault = "copy"
               THEN /\ Return([resources |-> resources, path |-> "",
                               err |-> IOError("copy", path)])
                    /\ UNCHANGED <<resources, idx>>
               ELSE /\ resources' = Append(resources, resource)
                    /\ idx' = idx + 1
                    /\ pc' = "walk"
                    /\ UNCHANGED ret
    /\ UNCHANGED <<goos, dir, archive, tmp, op, files, fromScan, modified, apath, queue, opened>>

\* line 119
GatherDirectoryResources_Return ==
    /\ op = "GatherDirectoryResources" /\ pc = "walk" /\ idx > Len(queue)
    /\ Return([resources |-> resources, path |-> "", err |-> nil])
    /\ UNCHANGED <<goos, dir, archive, tmp, op, files, fromScan, modified, apath, queue,
                   idx, resources, handles, opened>>

-----------------------------------------------------------------------------
(* GatherArchiveResources *)

\* lines 34-46; the archive scanned is the source archive, or the one a
\* Zip* call has just returned the path of
GatherArchiveResources_Call ==
    /\ \/ pc = "idle" /\ apath' = "source-archive"
       \/ pc = "done" /\ op \in ZipOps /\ ret.err = nil /\ apath' = ret.path
    /\ op' = "GatherArchiveResources"
    /\ resources' = <<>>
    /\ idx' = 1
    /\ opened' = {}
    /\ \E fault \in {"none", "open", "reader"} :
         IF ~Disk(apath').exists
         THEN /\ Return([resources |-> <<>>, path |-> "",
                         err |-> NotExistError("open", <<>>)])
              /\ UNCHANGED handles
         ELSE IF fault # "none"
         THEN /\ Return([resources |-> <<>>, path |-> "", err |-> IOError(fault, <<>>)])
              /\ UNCHANGED handles
         ELSE /\ pc' = "scan"
              /\ handles' = {[kind |-> "archive", id |-> 0]}
              /\ ret' = NoRet
    /\ UNCHANGED <<goos, dir, archive, tmp, files, fromScan, modified, queue>>

\* lines 48-57 and 70: one entry, up to the open of a file entry
GatherArchiveResources_Entry ==
    /\ op = "GatherArchiveResources" /\ pc = "scan" /\ idx <= Len(Disk(apath).File)
    /\ LET archivedFile == Disk(apath).File[idx]
           resource == [ZeroResource EXCEPT !.Filename = ToSlash(archivedFile.Name)]
       IN \E fault \in {"none", "open"} :
            IF FileInfo(archivedFile).IsDir
            THEN /\ fault = "none"
                 /\ resources' = Append(resources,
                                   [resource EXCEPT !.Mode = DefaultFolderPermissions])
                 /\ idx' = idx + 1
                 /\ UNCHANGED <<handles, pc, ret>>
            ELSE IF fault = "open"
            THEN /\ Return([resources |-> <<>>, path |-> "",
                            err |-> IOError("open", archivedFile.Name)])
                 /\ handles' = {}
                 /\ UNCHANGED <<resources, idx>>
            ELSE /\ handles' = handles \cup {[kind |-> "entry", id |-> idx]}
                 /\ pc' = "hash"
                 /\ UNCHANGED <<resources, idx, ret>>
    /\ UNCHANGED <<goos, dir, archive, tmp, op, files, fromScan, modified, apath, queue, opened>>

\* lines 57-70: hash the opened entry; its Close is deferred to the return
GatherArchiveResources_Hash ==
    /\ op = "GatherArchiveResources" /\ pc = "hash"
    /\ LET archivedFile == Disk(apath).File[idx]
           resource == [Filename |-> ToSlash(archivedFile.Name),
                        Mode |-> DefaultArchiveFilePermissions,
                        SHA1 |-> Sha1Hex(archivedFile.content),
                        Size |-> FileInfo(archivedFile).Size]
       IN \E fault \in {"none", "copy"} :
            IF fault = "copy"
            THEN /\ Return([resources |-> <<>>, path |-> "",
                            err |-> IOError("copy", archivedFile.Name)])
                 /\ handles' = {}
                 /\ UNCHANGED <<resources, idx>>
            ELSE /\ resources' = Append(resources, resource)
                 /\ idx' = idx + 1
                 /\ pc' = "scan"
                 /\ UNCHANGED <<handles, ret>>
    /\ UNCHANGED <<goos, dir, archive, tmp, op, files, fromScan, modified, apath, queue, opened>>

\* line 72, and the deferred Close calls of lines 41 and 57
GatherArchiveResources_Return ==
    /\ op = "GatherArchiveResources" /\ pc = "scan" /\ idx > Len(Disk(apath).File)
    /\ Return([resources |-> resources, path |-> "", err |-> nil])
    /\ handles' = {}
    /\ UNCHANGED <<goos, dir, archive, tmp, op, files, fromScan, modified, apath, queue,
                   idx, resources, opened>>

-----------------------------------------------------------------------------
(* addFileToZipFromFileSystem and findInResources *)

\* zip.FileInfoHeader
FileInfoHeader(fileInfo) == [Name |-> <<>>, Mode |-> fileInfo.Mode]

SetModeOfFilesOnly(header, mode) ==
    IF HasSuffixSlash(header.Name) THEN header ELSE [header EXCEPT !.Mode = mode % 512]

\* (*zip.FileHeader).SetMode: the permission bits of the header become mode's
SetMode(header, mode) == [header EXCEPT !.Mode = mode % 512]

HashCheckUnlessUndeclared(srcPath, sha1Sum, currentSum) ==
    IF sha1Sum # "" /\ sha1Sum # currentSum THEN FileChangedError(srcPath) ELSE nil

\* lines 273-279
HashCheck(srcPath, sha1Sum, currentSum) ==
    IF sha1Sum # currentSum THEN FileChangedError(srcPath) ELSE nil

\* what the call appends to the zip, and what it returns.  fault is the
\* library call that fails: "header" (FileInfoHeader), "create" (CreateHeader),
\* "copy" (io.Copy, after which the entry holds only what was copied so far)
addFileToZipFromFileSystem(srcPath, content, fileInfo, destPath, sha1Sum, mode, fault) ==
    LET dest == IF fileInfo.IsDir /\ ~HasSuffixSlash(destPath)
                THEN destPath \o <<"/">> ELSE destPath
        header == SetMode([FileInfoHeader(fileInfo) EXCEPT !.Name = dest], mode)
        entry(c) == [Name |-> header.Name, Mode |-> header.Mode, content |-> c]
    IN IF fault = "header"
       THEN [written |-> <<>>, err |-> IOError("header", srcPath)]
       ELSE IF fault = "create"
       THEN [written |-> <<>>, err |-> IOError("create", srcPath)]
       ELSE IF ~fileInfo.IsDir
       THEN IF fault = "copy"
            THEN [written |-> <<entry(<<>>)>>, err |-> IOError("copy", srcPath)]
            ELSE [written |-> <<entry(content)>>,
                  err |-> HashCheck(srcPath, sha1Sum, Sha1Hex(content))]
       ELSE [written |-> <<entry(<<>>)>>, err |-> nil]

RECURSIVE findInResources(_, _)
findInResources(path, filesToInclude) ==
    IF filesToInclude = <<>> THEN ZeroResource
    ELSE IF Head(filesToInclude).Filename = path THEN Head(filesToInclude)
    ELSE findInResources(path, Tail(filesToInclude))

AddFaults == {"none", "header", "create", "copy"}

-----------------------------------------------------------------------------
(* ZipDirectoryResources *)

\* os.Open, line 192
OsOpen(path, fault) ==
    IF ~Exists(path) THEN NotExistError("open", path)
    ELSE IF fault = "open" THEN IOError("open", path)
    ELSE nil

ZipFailureWithPath(err) == [resources |-> <<>>, path |-> TmpName, err |-> err]

\* return "", err  (lines 195, 201, 210)
ZipFailure(err) == [resources |-> <<>>, path |-> "", err |-> err]

\* lines 177-186; filesToInclude is any list, or the list the scan of the
\* directory has just returned
ZipDirectoryResources_Call ==
    /\ \/ /\ pc = "idle"
          /\ files' \in Lists
          /\ fromScan' = FALSE
       \/ /\ pc = "done" /\ op = "GatherDirectoryResources" /\ ret.err = nil
          /\ files' = ret.resources
          /\ fromScan' = TRUE
    /\ op' = "ZipDirectoryResources"
    /\ idx' = 1
    /\ resources' = <<>>
    /\ opened' = {}
    /\ \E fault \in {"none", "tempfile"} :
         IF fault = "tempfile"
         THEN /\ Return(ZipFailure(IOError("tempfile", <<>>)))
              /\ UNCHANGED tmp
         ELSE /\ tmp' = [exists |-> TRUE, File |-> <<>>]
              /\ pc' = "zip"
              /\ ret' = NoRet
    /\ UNCHANGED <<goos, dir, archive, modified, apath, queue, handles>>

\* lines 188-202: open and stat the file of one descriptor
ZipDirectoryResources_Open ==
    /\ op = "ZipDirectoryResources" /\ pc = "zip" /\ idx <= Len(files)
    /\ LET resource == files[idx]
           fullPath == Join(sourceDir, resource.Filename)
       IN \E fault \in {"none", "open", "stat"} :
            IF OsOpen(fullPath, fault) # nil
            THEN /\ Return(ZipFailure(OsOpen(fullPath, fault)))
                 /\ UNCHANGED <<handles, opened>>
            ELSE /\ handles' = handles \cup {[kind |-> "file", id |-> idx]}
                 /\ opened' = opened \cup {idx}
                 /\ IF fault = "stat"
                    THEN Return(ZipFailure(IOError("stat", fullPath)))
                    ELSE pc' = "add" /\ UNCHANGED ret
    /\ UNCHANGED <<goos, dir, archive, tmp, op, files, fromScan, modified, apath, queue,
                   idx, resources>>

\* lines 204-211
ZipDirectoryResources_Add ==
    /\ op = "ZipDirectoryResources" /\ pc = "add"
    /\ LET resource == files[idx]
           fullPath == Join(sourceDir, resource.Filename)
       IN \E fault \in AddFaults :
            LET r == addFileToZipFromFileSystem(fullPath, ReadAll(fullPath), Stat(fullPath),
                        resource.Filename, resource.SHA1, resource.Mode, fault)
            IN /\ tmp' = [tmp EXCEPT !.File = tmp.File \o r.written]
               /\ handles' = handles \ {[kind |-> "file", id |-> idx]}
               /\ IF r.err # nil
                  THEN Return(ZipFailure(r.err)) /\ UNCHANGED idx
                  ELSE idx' = idx + 1 /\ pc' = "zip" /\ UNCHANGED ret
    /\ UNCHANGED <<goos, dir, archive, op, files, fromScan, modified, apath, queue,
                   resources, opened>>

\* lines 214-218
ZipDirectoryResources_Return ==
    /\ op = "ZipDirectoryResources" /\ pc = "zip" /\ idx > Len(files)
    /\ Return([resources |-> <<>>, path |-> TmpName, err |-> nil])
    /\ UNCHANGED <<goos, dir, archive, tmp, op, files, fromScan, modified, apath, queue,
                   idx, resources, handles, opened>>

-----------------------------------------------------------------------------
(* ZipArchiveResources *)

\* lines 125-145
ZipArchiveResources_Call ==
    /\ pc = "idle"
    /\ files' \in Lists
    /\ op' = "ZipArchiveResources"
    /\ idx' = 1
    /\ \E fault \in {"none", "tempfile", "open", "reader"} :
         IF fault = "tempfile"
         THEN /\ Return(ZipFailure(IOError("tempfile", <<>>)))
              /\ UNCHANGED <<tmp, handles>>
         ELSE /\ tmp' = [exists |-> TRUE, File |-> <<>>]
              /\ IF ~archive.exists
                 THEN Return(ZipFailure(NotExistError("open", <<>>))) /\ UNCHANGED handles
                 ELSE IF fault # "none"
                 THEN Return(ZipFailure(IOError(fault, <<>>))) /\ UNCHANGED handles
                 ELSE /\ pc' = "zip"
                      /\ handles' = {[kind |-> "archive", id |-> 0]}
                      /\ UNCHANGED ret
    /\ UNCHANGED <<goos, dir, archive, fromScan, modified, apath, queue, resources, opened>>

\* lines 147-155: look the entry up and open it
ZipArchiveResources_Open ==
    /\ op = "ZipArchiveResources" /\ pc = "zip" /\ idx <= Len(archive.File)
    /\ LET archiveFile == archive.File[idx]
       IN \E fault \in {"none", "open"} :
            IF fault = "open"
            THEN /\ Return(ZipFailure(IOError("open", archiveFile.Name)))
                 /\ handles' = {}
                 /\ UNCHANGED opened
            ELSE /\ handles' = handles \cup {[kind |-> "entry", id |-> idx]}
                 /\ opened' = opened \cup {idx}
                 /\ pc' = "add"
                 /\ UNCHANGED ret
    /\ UNCHANGED <<goos, dir, archive, tmp, op, files, fromScan, modified, apath, queue,
                   idx, resources>>

\* lines 150 and 157-164
ZipArchiveResources_Add ==
    /\ op = "ZipArchiveResources" /\ pc = "add"
    /\ LET archiveFile == archive.File[idx]
           resource == findInResources(archiveFile.Name, files)
       IN \E fault \in AddFaults :
            LET r == addFileToZipFromFileSystem(archiveFile.Name, archiveFile.content,
                        FileInfo(archiveFile), archiveFile.Name,
                        resource.SHA1, resource.Mode, fault)
            IN /\ tmp' = [tmp EXCEPT !.File = tmp.File \o r.written]
               /\ IF r.err # nil
                  THEN /\ Return(ZipFailure(r.err))
                       /\ handles' = {}
                       /\ UNCHANGED idx
                  ELSE /\ handles' = handles \ {[kind |-> "entry", id |-> idx]}
                       /\ idx' = idx + 1
                       /\ pc' = "zip"
                       /\ UNCHANGED ret
    /\ UNCHANGED <<goos, dir, archive, op, files, fromScan, modified, apath, queue,
                   resources, opened>>

\* lines 167-171, and the deferred source.Close of line 140
ZipArchiveResources_Return ==
    /\ op = "ZipArchiveResources" /\ pc = "zip" /\ idx > Len(archive.File)
    /\ Return([resources |-> <<>>, path |-> TmpName, err |-> nil])
    /\ handles' = {}
    /\ UNCHANGED <<goos, dir, archive, tmp, op, files, fromScan, modified, apath, queue,
                   idx, resources, opened>>

-----------------------------------------------------------------------------
\* the caller is done with the result; the temp archive is the caller's to delete
Discard ==
    /\ pc = "done"
    /\ pc' = "idle" /\ op' = ""
    /\ tmp' = NoTmp
    /\ files' = <<>> /\ fromScan' = FALSE /\ modified' = FALSE /\ apath' = ""
    /\ queue' = <<>> /\ idx' = 0 /\ resources' = <<>>
    /\ handles' = {} /\ opened' = {} /\ ret' = NoRet
    /\ UNCHANGED <<goos, dir, archive>>

\* another process rewrites a file of the directory after it was scanned
Modify ==
    /\ pc = "done" /\ op = "GatherDirectoryResources" /\ ret.err = nil
    /\ ~modified
    /\ \E k \in DOMAIN dir.entries, c \in Contents :
         /\ dir.entries[k].kind = "file"
         /\ c # dir.entries[k].content
         /\ dir' = [dir EXCEPT !.entries[k].content = c, !.entries[k].lsize = Len(c)]
    /\ modified' = TRUE
    /\ UNCHANGED <<goos, archive, tmp, op, pc, files, fromScan, apath, queue,
                   idx, resources, handles, opened, ret>>

Next ==
    \/ GatherDirectoryResources_Call
    \/ WalkFn_Enter
    \/ WalkFn_Hash
    \/ GatherDirectoryResources_Return
    \/ GatherArchiveResources_Call
    \/ GatherArchiveResources_Entry
    \/ GatherArchiveResources_Hash
    \/ GatherArchiveResources_Return
    \/ ZipDirectoryResources_Call
    \/ ZipDirectoryResources_Open
    \/ ZipDirectoryResources_Add
    \/ ZipDirectoryResources_Return
    \/ ZipArchiveResources_Call
    \/ ZipArchiveResources_Open
    \/ ZipArchiveResources_Add
    \/ ZipArchiveResources_Return
    \/ Modify
    \/ Discard

Spec == Init /\ [][Next]_vars

-----------------------------------------------------------------------------
(* Properties *)

Done(o) == pc = "done" /\ op = o

\* the path ZipDirectoryResources opens for descriptor j
FullPath(j) == Join(sourceDir, files[j].Filename)

\* entry j of the running Zip* call is a file whose content was copied to the end
CopiedFile(j) ==
    /\ j \in opened
    /\ j < idx \/ ret.err.kind # "io"
    /\ IF op = "ZipDirectoryResources" THEN ~Stat(FullPath(j)).IsDir
       ELSE ~HasSuffixSlash(archive.File[j].Name)

Listed(name) == \E l \in 1..Len(files) : files[l].Filename = name

DeclaredFor(name) == files[CHOOSE l \in 1..Len(files) : files[l].Filename = name]

\* the content of entry j at pack time differs from what the list declares for it
Mismatch(j) ==
    IF op = "ZipDirectoryResources"
    THEN Sha1Hex(ReadAll(FullPath(j))) # files[j].SHA1
    ELSE /\ Listed(archive.File[j].Name)
         /\ Sha1Hex(archive.File[j].content) # DeclaredFor(archive.File[j].Name).SHA1

NamesEntry(path, j) ==
    IF op = "ZipDirectoryResources"
    THEN KeyOf(path) = KeyOf(FullPath(j)) /\ KeyOf(path) \in DOMAIN dir.entries
    ELSE path = archive.File[j].Name

\* C1: when a Zip* call has returned and a file entry it copied has content
\* whose SHA1 differs from the SHA1 the inclusion list declares for it, the
\* call returned a FileChangedError naming that file and an empty path.
C1_FileChanged ==
    (pc = "done" /\ op \in ZipOps) =>
        \A j \in opened :
            (CopiedFile(j) /\ Mismatch(j)) =>
                /\ ret.err.kind = "FileChanged"
                /\ NamesEntry(ret.err.path, j)
                /\ ret.path = ""

\* C1 witness: the directory was scanned, a file of it rewritten, and the pack
\* of the scanned list failed on the second descriptor with FileChangedError
C1_Witness ==
    /\ Done("ZipDirectoryResources") /\ fromScan /\ modified
    /\ idx = 2 /\ ret.err.kind = "FileChanged"
    /\ CopiedFile(2) /\ Mismatch(2)

FileDescriptorsOfDir == {i \in 1..Len(files) : ~Lstat(FullPath(i)).IsDir}

\* C2: packing an unmodified directory with the list its scan returned
\* succeeds (short of an I/O failure), and the scan of the archive it made
\* has, for every file entry of the directory, a descriptor with the same
\* path, SHA1 and size as the directory scan's.
C2_RoundTrip ==
    /\ (Done("ZipDirectoryResources") /\ fromScan /\ ~modified) =>
           ret.err.kind \in {"nil", "io"}
    /\ (Done("GatherArchiveResources") /\ fromScan /\ ~modified /\ ret.err = nil) =>
           \A i \in FileDescriptorsOfDir :
               \E j \in 1..Len(ret.resources) :
                   /\ ret.resources[j].Filename = files[i].Filename
                   /\ ret.resources[j].SHA1 = files[i].SHA1
                   /\ ret.resources[j].Size = files[i].Size

\* C3: when ZipArchiveResources succeeds, the names of the entries of the
\* archive it made are exactly the paths the inclusion list names.
C3_ExactlyListed ==
    (Done("ZipArchiveResources") /\ ret.err = nil) =>
        {tmp.File[k].Name : k \in 1..Len(tmp.File)}
            = {files[l].Filename : l \in 1..Len(files)}

RECURSIVE SlashPath(_)
SlashPath(key) ==
    IF Len(key) = 1 THEN key
    ELSE SlashPath(SubSeq(key, 1, Len(key) - 1)) \o <<"/", key[Len(key)]>>

\* C4: a scan of a directory that returns no error returns exactly one
\* descriptor for each entry below the root, at any depth, named by the
\* entry's path relative to the root written with forward slashes, and none
\* for the root; no two descriptors share a Filename.
C4_OnePerEntry ==
    (Done("GatherDirectoryResources") /\ ret.err = nil) =>
        /\ Len(ret.resources) = Cardinality(DOMAIN dir.entries)
        /\ \A k \in DOMAIN dir.entries :
               Cardinality({i \in 1..Len(ret.resources) :
                               ret.resources[i].Filename = SlashPath(k)}) = 1
        /\ \A i, j \in 1..Len(ret.resources) :
               i # j => ret.resources[i].Filename # ret.resources[j].Filename

\* C4 witness: on Windows, a scan returned the descriptor of a nested entry
C4_Witness ==
    /\ Done("GatherDirectoryResources") /\ ret.err = nil /\ goos = "windows"
    /\ Len(ret.resources) = 2
    /\ ret.resources[2].Filename = <<"a", "/", "b">>

\* C5: a scan that returns an error returns no descriptors.
C5_NoPartialResults ==
    (pc = "done" /\ op \in GatherOps /\ ret.err # nil) => ret.resources = <<>>

\* descriptor j cannot be packed whatever the I/O does: its file is missing,
\* or is a file whose content does not have the declared SHA1
Bad(j) ==
    \/ ~Exists(FullPath(j))
    \/ ~Stat(FullPath(j)).IsDir /\ Sha1Hex(ReadAll(FullPath(j))) # files[j].SHA1

\* C6: ZipDirectoryResources works through the list in order and stops at the
\* first failure: it returns an empty path and that failure's error, no later
\* descriptor is opened or written, and a descriptor naming a missing file
\* gives the open error, never FileChangedError.
C6_FirstFailure ==
    Done("ZipDirectoryResources") =>
        /\ \A k \in 1..Len(tmp.File) :
               tmp.File[k].Name \in {files[k].Filename, files[k].Filename \o <<"/">>}
        /\ IF ret.err = nil
           THEN /\ ret.path = TmpName
                /\ idx = Len(files) + 1
                /\ opened = 1..Len(files)
                /\ \A j \in 1..Len(files) : ~Bad(j)
           ELSE /\ ret.path = ""
                /\ ret.err.call # "tempfile" =>
                     /\ idx \in 1..Len(files)
                     /\ opened \subseteq 1..idx
                     /\ Len(tmp.File) <= idx
                     /\ \A j \in 1..(idx - 1) : ~Bad(j)
                     /\ ~Exists(FullPath(idx)) <=> ret.err = NotExistError("open", FullPath(idx))
                     /\ ret.err.kind = "FileChanged" =>
                            /\ Bad(idx)
                            /\ ret.err.path = FullPath(idx)
                     /\ ret.err.kind = "nil" \/ ret.err.kind = "io"
                            \/ Bad(idx)

\* C6 witness: the first descriptor was packed, the second names a missing
\* file, a third was never reached
C6_Witness ==
    /\ Done("ZipDirectoryResources")
    /\ idx = 2 /\ Len(files) >= 2 /\ opened = {1} /\ Len(tmp.File) = 1
    /\ ret.err.kind = "notexist"

\* C7: an entry of the source archive that the inclusion list does not name
\* never makes ZipArchiveResources fail with FileChangedError.
C7_SilentMiss ==
    (Done("ZipArchiveResources") /\ ret.err.kind = "FileChanged") =>
        Listed(ret.err.path)

ListedMode(name) == IF Listed(name) THEN DeclaredFor(name).Mode ELSE 0

ContentHandles == {h \in handles : h.kind \in {"file", "entry"}}

\* C9: at every point of every scan and pack at most one source content
\* handle is open.
C9_OneAtATime == Cardinality(ContentHandles) <= 1

\* C10: when a Zip* call has returned, no source handle it opened is open.
C10_AllClosed ==
    (pc = "done" /\ op \in ZipOps) => handles = {}

====
